---- MODULE Spec2Model ----
(***************************************************************************)
(* Intent Classification API (backend/app.py).                             *)
(*                                                                         *)
(* The module models the start-up loader (four joblib.load calls and the   *)
(* MODELS registry), the five request handlers step by step, and the       *)
(* requests in flight.  The serialized vectorizer and classifiers are      *)
(* opaque artifacts: an artifact file is either unreadable (joblib.load    *)
(* raises) or holds an object whose transform / predict either raises on   *)
(* every call or computes a fixed function of its argument.                *)
(***************************************************************************)
EXTENDS Naturals, Sequences, FiniteSets, TLC

\* ------------------------------------------------------------------ bounds

\* Longest request text, in characters.
MaxTextLen == 3

\* Requests handled at the same time in SpecConc.
MaxInFlight == 2

\* ------------------------------------------------------------- value spaces

Whitespace == {" "}
Chars == Whitespace \cup {"a"}

RECURSIVE SeqsUpTo(_, _)
SeqsUpTo(S, n) ==
    IF n = 0 THEN {<<>>}
    ELSE LET shorter == SeqsUpTo(S, n - 1)
         IN  shorter \cup {Append(s, c) : s \in {t \in shorter : Len(t) = n - 1}, c \in S}

\* Request texts: every string over Chars of at most MaxTextLen characters.
Texts == SeqsUpTo(Chars, MaxTextLen)

\* The keys of MODELS, in the insertion order of the dict literal.
ModelOrder == <<"naive_bayes", "logistic_regression", "linear_svm">>

ModelNames == {ModelOrder[i] : i \in 1..Len(ModelOrder)}

\* model_name values a client can send: the registered ones and two others.
RequestedNames == ModelNames \cup {"random_forest", "Naive_Bayes"}

\* Intent labels the classifiers were trained on.
Labels == {"greeting", "book_flight"}

\* The terms the fitted vectorizer knows.
Vocabulary == {<<"a">>}

\* A feature vector, abstracted to the set of known terms present.
Features == SUBSET Vocabulary

VectorizerFile == "models/tfidf_vectorizer.pkl"

ModelFile ==
    [naive_bayes |-> "models/naive_bayes_model.pkl",
     logistic_regression |-> "models/logistic_regression_model.pkl",
     linear_svm |-> "models/linear_svm_model.pkl"]

\* What str(e) gives for an exception raised inside an artifact.
TransformError == "vectorizer transform failed"
PredictError == "classifier predict failed"

\* A loaded vectorizer: its identity, and whether transform raises.
VectorizerObjects ==
    [id : {VectorizerFile}, fails : BOOLEAN]

\* A loaded classifier: its identity, whether predict raises, and the label
\* it predicts for each feature vector.
AlwaysRaises(file) ==
    [id |-> file, fails |-> TRUE, label |-> [x \in Features |-> "greeting"]]

ClassifierObjects(file) ==
    {AlwaysRaises(file)} \cup [id : {file}, fails : {FALSE}, label : [Features -> Labels]]

\* The contents of an artifact file: unreadable (joblib.load raises), or a
\* pickled object.
VectorizerContents ==
    {[ok |-> FALSE, obj |-> [id |-> VectorizerFile, fails |-> TRUE]]}
    \cup [ok : {TRUE}, obj : VectorizerObjects]

ClassifierContents(file) ==
    {[ok |-> FALSE, obj |-> AlwaysRaises(file)]}
    \cup [ok : {TRUE}, obj : ClassifierObjects(file)]

ArtifactFiles == {VectorizerFile} \cup {ModelFile[m] : m \in ModelNames}

\* ------------------------------------------------------------ string helpers

\* str.strip(): drop leading and trailing whitespace, keep the inside.
RECURSIVE LStrip(_)
LStrip(t) ==
    IF t = <<>> THEN t
    ELSE IF Head(t) \in Whitespace THEN LStrip(Tail(t)) ELSE t

RECURSIVE RStrip(_)
RStrip(t) ==
    IF t = <<>> THEN t
    ELSE IF t[Len(t)] \in Whitespace THEN RStrip(SubSeq(t, 1, Len(t) - 1)) ELSE t

Strip(t) == RStrip(LStrip(t))

\* The whitespace-separated tokens of a text.
RECURSIVE Tokens(_, _)
Tokens(t, cur) ==
    IF t = <<>> THEN (IF cur = <<>> THEN {} ELSE {cur})
    ELSE IF Head(t) \in Whitespace
         THEN (IF cur = <<>> THEN {} ELSE {cur}) \cup Tokens(Tail(t), <<>>)
         ELSE Tokens(Tail(t), Append(cur, Head(t)))

\* vectorizer.transform([text]) of a working vectorizer.
Transform(text) == Tokens(text, <<>>) \cap Vocabulary

\* --------------------------------------------------------------------- state

VARIABLES
    disk,                        \* artifact file -> contents
    startup,                     \* position of the module body
    vectorizer,                  \* module globals: <<>> while unbound
    naive_bayes_model,
    logistic_regression_model,
    linear_svm_model,
    MODELS,                      \* the registry dict: keys in order, and items
    req                          \* request slot -> the request being handled

vars == <<disk, startup, vectorizer, naive_bayes_model, logistic_regression_model,
          linear_svm_model, MODELS, req>>

globals == <<vectorizer, naive_bayes_model, logistic_regression_model,
             linear_svm_model, MODELS>>

Slots == 1..MaxInFlight

EmptyDict == [keys |-> <<>>, at |-> <<>>]

\* A slot with no request in it.
Idle ==
    [pc |-> "idle", endpoint |-> "", text |-> <<>>, model_name |-> "",
     selected_model |-> <<>>, X_tfidf |-> <<>>, results |-> EmptyDict,
     todo |-> <<>>, calls |-> <<>>, response |-> <<>>]

\* ------------------------------------------------------------------- startup

\* Mutant: a loader that hands back whatever it could read instead of raising.
JoblibLoadLenient(file) == [ok |-> TRUE, obj |-> disk[file].obj]

\* joblib.load(file): the pickled object, or an exception.
JoblibLoad(file) == disk[file]

\* The module body binds its globals in this order.
LoadStep(step, file) ==
    /\ startup = step
    /\ IF JoblibLoad(file).ok
       THEN /\ startup' = CASE step = "load_vectorizer" -> "load_naive_bayes"
                            [] step = "load_naive_bayes" -> "load_logistic_regression"
                            [] step = "load_logistic_regression" -> "load_linear_svm"
                            [] OTHER -> "define_models"
            /\ vectorizer' =
                 IF step = "load_vectorizer" THEN <<JoblibLoad(file).obj>> ELSE vectorizer
            /\ naive_bayes_model' =
                 IF step = "load_naive_bayes" THEN <<JoblibLoad(file).obj>>
                 ELSE naive_bayes_model
            /\ logistic_regression_model' =
                 IF step = "load_logistic_regression" THEN <<JoblibLoad(file).obj>>
                 ELSE logistic_regression_model
            /\ linear_svm_model' =
                 IF step = "load_linear_svm" THEN <<JoblibLoad(file).obj>>
                 ELSE linear_svm_model
       ELSE \* except Exception: logger.error(...); raise
            /\ startup' = "aborted"
            /\ UNCHANGED <<vectorizer, naive_bayes_model, logistic_regression_model,
                           linear_svm_model>>
    /\ UNCHANGED <<disk, MODELS, req>>

LoadVectorizer == LoadStep("load_vectorizer", VectorizerFile)
LoadNaiveBayes == LoadStep("load_naive_bayes", ModelFile["naive_bayes"])
LoadLogisticRegression ==
    LoadStep("load_logistic_regression", ModelFile["logistic_regression"])
LoadLinearSvm == LoadStep("load_linear_svm", ModelFile["linear_svm"])

\* MODELS = {...}: the dict literal over the three loaded classifiers; the
\* module body then runs to its end and the server starts.
DefineModels ==
    /\ startup = "define_models"
    /\ MODELS' = [keys |-> ModelOrder,
                  at |-> [naive_bayes |-> naive_bayes_model[1],
                          logistic_regression |-> logistic_regression_model[1],
                          linear_svm |-> linear_svm_model[1]]]
    /\ startup' = "serving"
    /\ UNCHANGED <<disk, vectorizer, naive_bayes_model, logistic_regression_model,
                   linear_svm_model, req>>

\* uvicorn serves the app only once the module body has run to its end.
Accepting == startup = "serving"

\* ------------------------------------------------------------ HTTP plumbing

Endpoints == {"/", "/models", "/predict", "/predict-all", "/health"}

\* An f-string message: its fixed words, the value formatted into it, and the
\* list formatted into it.
Message(words, value, list) == [words |-> words, value |-> value, list |-> list]

\* raise HTTPException(status_code, detail)
HTTPException(status_code, detail) ==
    [type |-> "HTTPException", status_code |-> status_code, detail |-> detail]

\* An exception raised inside an artifact; detail holds str(e).
Exception(text) ==
    [type |-> "Exception", status_code |-> 0, detail |-> Message("", text, <<>>)]

\* Mutant: the handlers' catch-all without the `except HTTPException: raise`
\* clause before it.
ExceptClausesCatchAll(e) ==
    HTTPException(500, Message("Internal server error during prediction: ",
                               e.detail.value, <<>>))

\* The two except clauses that close both prediction handlers:
\* an HTTPException passes through, anything else becomes a 500.
ExceptClauses(e) ==
    IF e.type = "HTTPException" THEN e
    ELSE HTTPException(500, Message("Internal server error during prediction: ",
                                    e.detail.value, <<>>))

\* The handler returned `body`: FastAPI answers 200.
Return(q, body) ==
    [q EXCEPT !.pc = "done", !.response = <<[status |-> 200, body |-> body]>>]

\* An HTTPException left the handler: FastAPI answers its status and detail.
Fail(q, e) ==
    [q EXCEPT !.pc = "done",
              !.response = <<[status |-> e.status_code, body |-> [detail |-> e.detail]]>>]

\* A statement of a prediction handler's try block raised `e`.
Raise(q, e) == Fail(q, ExceptClauses(e))

\* A request arrives and is routed to its handler.
Receive(r, endpoint, text, model_name) ==
    /\ Accepting
    /\ req[r].pc = "idle"
    /\ req' = [req EXCEPT ![r] = [Idle EXCEPT !.pc = "received", !.endpoint = endpoint,
                                              !.text = text, !.model_name = model_name]]
    /\ UNCHANGED <<disk, startup, globals>>

\* The response has been sent; the slot is free again.
Complete(r) ==
    /\ req[r].pc = "done"
    /\ req' = [req EXCEPT ![r] = Idle]
    /\ UNCHANGED <<disk, startup, globals>>

\* ------------------------------------------------------------------ GET /...

root(r) ==
    /\ req[r].pc = "received" /\ req[r].endpoint = "/"
    /\ req' = [req EXCEPT ![r] =
                 Return(@, [message |-> "Intent Classification API is running"])]
    /\ UNCHANGED <<disk, startup, globals>>

ModelDescriptions ==
    [naive_bayes |-> "Naive Bayes Classifier",
     logistic_regression |-> "Logistic Regression Classifier",
     linear_svm |-> "Linear Support Vector Machine"]

get_available_models(r) ==
    /\ req[r].pc = "received" /\ req[r].endpoint = "/models"
    /\ req' = [req EXCEPT ![r] =
                 Return(@, [models |-> MODELS.keys, description |-> ModelDescriptions])]
    /\ UNCHANGED <<disk, startup, globals>>

health_check(r) ==
    /\ req[r].pc = "received" /\ req[r].endpoint = "/health"
    /\ req' = [req EXCEPT ![r] =
                 Return(@, [status |-> "healthy", models_loaded |-> Len(MODELS.keys)])]
    /\ UNCHANGED <<disk, startup, globals>>

\* -------------------------------------------------------------- POST /predict

\* Mutant: the text is validated before the model name.
PredictValidatedTextFirst(q) ==
    IF Strip(q.text) = <<>>
    THEN Raise(q, HTTPException(400, Message("Input text cannot be empty", "", <<>>)))
    ELSE IF q.model_name \notin DOMAIN MODELS.at
    THEN Raise(q, HTTPException(400, Message("Model not found. Available models: ",
                                             q.model_name, MODELS.keys)))
    ELSE [q EXCEPT !.pc = "validated", !.selected_model = <<MODELS.at[q.model_name]>>]

\* Mutant: the text is vectorized before it is validated.
PredictValidatedAfterTransform(q) ==
    LET called == [q EXCEPT !.calls = Append(@, vectorizer[1].id)]
    IN  IF q.model_name \notin DOMAIN MODELS.at
        THEN Raise(called,
                   HTTPException(400, Message("Model not found. Available models: ",
                                              q.model_name, MODELS.keys)))
        ELSE IF vectorizer[1].fails
        THEN Raise(called, Exception(TransformError))
        ELSE IF Strip(q.text) = <<>>
        THEN Raise(called,
                   HTTPException(400, Message("Input text cannot be empty", "", <<>>)))
        ELSE [called EXCEPT !.pc = "validated",
                            !.selected_model = <<MODELS.at[q.model_name]>>]

\* Lines 75-90: the two validations, then the lookup of the selected model.
PredictValidated(q) ==
    IF q.model_name \notin DOMAIN MODELS.at
    THEN Raise(q, HTTPException(400, Message("Model not found. Available models: ",
                                             q.model_name, MODELS.keys)))
    ELSE IF Strip(q.text) = <<>>
    THEN Raise(q, HTTPException(400, Message("Input text cannot be empty", "", <<>>)))
    ELSE [q EXCEPT !.pc = "validated", !.selected_model = <<MODELS.at[q.model_name]>>]

\* Line 93: X_tfidf = vectorizer.transform([request.text])
Vectorized(q) ==
    LET called == [q EXCEPT !.calls = Append(@, vectorizer[1].id)]
    IN  IF vectorizer[1].fails
        THEN Raise(called, Exception(TransformError))
        ELSE [called EXCEPT !.pc = "transformed", !.X_tfidf = <<Transform(q.text)>>]

\* Mutant: the response echoes the trimmed text.
PredictPredictedTrimmed(q) ==
    LET model == q.selected_model[1]
        called == [q EXCEPT !.calls = Append(@, model.id)]
    IN  IF model.fails
        THEN Raise(called, Exception(PredictError))
        ELSE Return(called, [text |-> Strip(q.text), model_name |-> q.model_name,
                             predicted_intent |-> model.label[q.X_tfidf[1]]])

\* Lines 96-112: prediction = selected_model.predict(X_tfidf), and the response.
PredictPredicted(q) ==
    LET model == q.selected_model[1]
        called == [q EXCEPT !.calls = Append(@, model.id)]
    IN  IF model.fails
        THEN Raise(called, Exception(PredictError))
        ELSE Return(called, [text |-> q.text, model_name |-> q.model_name,
                             predicted_intent |-> model.label[q.X_tfidf[1]]])

PredictValidate(r) ==
    /\ req[r].pc = "received" /\ req[r].endpoint = "/predict"
    /\ req' = [req EXCEPT ![r] = PredictValidated(@)]
    /\ UNCHANGED <<disk, startup, globals>>

PredictTransform(r) ==
    /\ req[r].pc = "validated" /\ req[r].endpoint = "/predict"
    /\ req' = [req EXCEPT ![r] = Vectorized(@)]
    /\ UNCHANGED <<disk, startup, globals>>

PredictPredict(r) ==
    /\ req[r].pc = "transformed" /\ req[r].endpoint = "/predict"
    /\ req' = [req EXCEPT ![r] = PredictPredicted(@)]
    /\ UNCHANGED <<disk, startup, globals>>

\* ---------------------------------------------------------- POST /predict-all

\* results[key] = value on a dict that does not hold key yet.
DictSet(d, key, value) ==
    [keys |-> IF key \in DOMAIN d.at THEN d.keys ELSE Append(d.keys, key),
     at |-> [k \in DOMAIN d.at \cup {key} |-> IF k = key THEN value ELSE d.at[k]]]

\* Mutant: `if not text` without the strip().
PredictAllValidatedNoStrip(q) ==
    IF q.text = <<>>
    THEN Raise(q, HTTPException(400, Message("Input text cannot be empty", "", <<>>)))
    ELSE [q EXCEPT !.pc = "validated"]

\* Lines 127-131: the validation.
PredictAllValidated(q) ==
    IF Strip(q.text) = <<>>
    THEN Raise(q, HTTPException(400, Message("Input text cannot be empty", "", <<>>)))
    ELSE [q EXCEPT !.pc = "validated"]

\* Lines 133-136: results = {}, the one vectorization, and the start of the
\* iteration over MODELS.items().
PredictAllVectorized(q) ==
    LET v == Vectorized([q EXCEPT !.results = EmptyDict])
    IN  IF v.pc = "transformed" THEN [v EXCEPT !.pc = "loop", !.todo = MODELS.keys] ELSE v

\* Mutant: a failing model is skipped and gets no entry.
PredictAllIteratedSkip(q) ==
    LET model_name == Head(q.todo)
        model == MODELS.at[model_name]
        called == [q EXCEPT !.calls = Append(@, model.id), !.todo = Tail(@)]
    IN  IF model.fails
        THEN called
        ELSE [called EXCEPT !.results =
                DictSet(@, model_name, [predicted_intent |-> model.label[q.X_tfidf[1]]])]

\* Mutant: no inner try, so a model's failure reaches the handler's catch-all.
PredictAllIteratedPropagates(q) ==
    LET model_name == Head(q.todo)
        model == MODELS.at[model_name]
        called == [q EXCEPT !.calls = Append(@, model.id), !.todo = Tail(@)]
    IN  IF model.fails
        THEN Raise(called, Exception(PredictError))
        ELSE [called EXCEPT !.results =
                DictSet(@, model_name, [predicted_intent |-> model.label[q.X_tfidf[1]]])]

\* Lines 137-156: one iteration; the inner try catches the model's failure.
PredictAllIterated(q) ==
    LET model_name == Head(q.todo)
        model == MODELS.at[model_name]
        called == [q EXCEPT !.calls = Append(@, model.id), !.todo = Tail(@)]
    IN  IF model.fails
        THEN [called EXCEPT !.results = DictSet(@, model_name, [error |-> PredictError])]
        ELSE [called EXCEPT !.results =
                DictSet(@, model_name, [predicted_intent |-> model.label[q.X_tfidf[1]]])]

\* Lines 158-161: the return after the loop.
PredictAllReturned(q) == Return(q, [text |-> q.text, results |-> q.results])

PredictAllValidate(r) ==
    /\ req[r].pc = "received" /\ req[r].endpoint = "/predict-all"
    /\ req' = [req EXCEPT ![r] = PredictAllValidated(@)]
    /\ UNCHANGED <<disk, startup, globals>>

PredictAllTransform(r) ==
    /\ req[r].pc = "validated" /\ req[r].endpoint = "/predict-all"
    /\ req' = [req EXCEPT ![r] = PredictAllVectorized(@)]
    /\ UNCHANGED <<disk, startup, globals>>

\* Mutant: the loop takes each model out of the registry as it goes.
PredictAllIteratePops(r) ==
    /\ req[r].pc = "loop" /\ req[r].todo # <<>>
    /\ req' = [req EXCEPT ![r] = PredictAllIterated(@)]
    /\ MODELS' = [keys |-> SelectSeq(MODELS.keys, LAMBDA k : k # Head(req[r].todo)),
                  at |-> [k \in DOMAIN MODELS.at \ {Head(req[r].todo)} |-> MODELS.at[k]]]
    /\ UNCHANGED <<disk, startup, vectorizer, naive_bayes_model,
                   logistic_regression_model, linear_svm_model>>

\* Mutant: results is one dict of the module, shared by the requests in flight.
PredictAllIterateShared(r) ==
    /\ req[r].pc = "loop" /\ req[r].todo # <<>>
    /\ req' = [s \in Slots |->
                 IF s = r THEN PredictAllIterated(req[r])
                 ELSE IF req[s].pc = "loop"
                 THEN [req[s] EXCEPT !.results = PredictAllIterated(req[r]).results]
                 ELSE req[s]]
    /\ UNCHANGED <<disk, startup, globals>>

PredictAllIterate(r) ==
    /\ req[r].pc = "loop" /\ req[r].todo # <<>>
    /\ req' = [req EXCEPT ![r] = PredictAllIterated(@)]
    /\ UNCHANGED <<disk, startup, globals>>

PredictAllReturn(r) ==
    /\ req[r].pc = "loop" /\ req[r].todo = <<>>
    /\ req' = [req EXCEPT ![r] = PredictAllReturned(@)]
    /\ UNCHANGED <<disk, startup, globals>>

\* ------------------------------------------------------------ specifications

\* The requests a client can send with these texts and model names.
RequestInputs(texts, names) ==
    {<<"/", <<>>, "">>, <<"/models", <<>>, "">>, <<"/health", <<>>, "">>}
    \cup {<<"/predict", t, m>> : t \in texts, m \in names}
    \cup {<<"/predict-all", t, "">> : t \in texts}

Arrive(r, inputs) == \E i \in inputs : Receive(r, i[1], i[2], i[3])

Handle(r) ==
    \/ root(r)
    \/ get_available_models(r)
    \/ health_check(r)
    \/ PredictValidate(r)
    \/ PredictTransform(r)
    \/ PredictPredict(r)
    \/ PredictAllValidate(r)
    \/ PredictAllTransform(r)
    \/ PredictAllIterate(r)
    \/ PredictAllReturn(r)
    \/ Complete(r)

\* The process from its start: any contents of the four artifact files, the
\* module body, then requests handled one at a time.
Init ==
    /\ \E v \in VectorizerContents :
       \E nb \in ClassifierContents(ModelFile["naive_bayes"]) :
       \E lr \in ClassifierContents(ModelFile["logistic_regression"]) :
       \E svm \in ClassifierContents(ModelFile["linear_svm"]) :
          disk = [f \in ArtifactFiles |->
                    IF f = VectorizerFile THEN v
                    ELSE IF f = ModelFile["naive_bayes"] THEN nb
                    ELSE IF f = ModelFile["logistic_regression"] THEN lr
                    ELSE svm]
    /\ startup = "load_vectorizer"
    /\ vectorizer = <<>>
    /\ naive_bayes_model = <<>>
    /\ logistic_regression_model = <<>>
    /\ linear_svm_model = <<>>
    /\ MODELS = EmptyDict
    /\ req = [r \in Slots |-> Idle]

Next ==
    \/ LoadVectorizer
    \/ LoadNaiveBayes
    \/ LoadLogisticRegression
    \/ LoadLinearSvm
    \/ DefineModels
    \/ Arrive(1, RequestInputs(Texts, RequestedNames))
    \/ Handle(1)

Spec == Init /\ [][Next]_vars

\* Requests sent in SpecConc: two texts that vectorize differently, to two
\* registered models and to all; and one request that fails each validation.
ConcInputs ==
    RequestInputs({<<"a">>, <<"a", "a">>}, {"naive_bayes", "linear_svm"})
    \cup {<<"/predict", <<"a">>, "random_forest">>, <<"/predict-all", <<" ">>, "">>}

\* Classifiers loaded in SpecConc: one that raises, or one whose label depends
\* on the vector, and differently for naive_bayes than for the other two.
ConcClassifierObjects(file) ==
    {AlwaysRaises(file),
     [id |-> file, fails |-> FALSE,
      label |-> [x \in Features |->
                   IF (x = {}) = (file = ModelFile["naive_bayes"])
                   THEN "greeting" ELSE "book_flight"]]}

\* The serving process: the artifacts loaded and the registry built; no
\* request yet.
InitConc ==
    /\ \E v \in VectorizerObjects :
       \E nb \in ConcClassifierObjects(ModelFile["naive_bayes"]) :
       \E lr \in ConcClassifierObjects(ModelFile["logistic_regression"]) :
       \E svm \in ConcClassifierObjects(ModelFile["linear_svm"]) :
          /\ disk = [f \in ArtifactFiles |->
                       [ok |-> TRUE,
                        obj |-> IF f = VectorizerFile THEN v
                                ELSE IF f = ModelFile["naive_bayes"] THEN nb
                                ELSE IF f = ModelFile["logistic_regression"] THEN lr
                                ELSE svm]]
          /\ vectorizer = <<v>>
          /\ naive_bayes_model = <<nb>>
          /\ logistic_regression_model = <<lr>>
          /\ linear_svm_model = <<svm>>
          /\ MODELS = [keys |-> ModelOrder,
                       at |-> [naive_bayes |-> nb, logistic_regression |-> lr,
                               linear_svm |-> svm]]
    /\ startup = "serving"
    /\ req = [r \in Slots |-> Idle]

\* Requests handled concurrently: the steps of the handlers in flight
\* interleave in any order.
NextConc ==
    \E r \in Slots :
        \/ Arrive(r, ConcInputs)
        \/ Handle(r)

SpecConc == InitConc /\ [][NextConc]_vars

\* -------------------------------------------------------------------- claims

Answered(r) == req[r].pc = "done"
Status(r) == req[r].response[1].status
Body(r) == req[r].response[1].body
NonBlank(t) == Strip(t) # <<>>
Registered(m) == m \in ModelNames
TransformWorks == ~vectorizer[1].fails
PredictWorks(m) == ~MODELS.at[m].fails

\* The label classifier m gives the vector of text t.
OwnLabel(m, t) == MODELS.at[m].label[Transform(t)]
LabelSet(m) == {MODELS.at[m].label[x] : x \in Features}

\* The body of a successful /predict: the request echoed, and the named
\* classifier's label.
PredictBodyOk(r) ==
    /\ Status(r) = 200
    /\ Body(r) = [text |-> req[r].text, model_name |-> req[r].model_name,
                  predicted_intent |-> OwnLabel(req[r].model_name, req[r].text)]
    /\ Body(r).predicted_intent \in LabelSet(req[r].model_name)

\* C1 as stated: /predict with a registered model name and any non-empty text
\* answers 200 with the request echoed and the named classifier's label.
C1_AsStated ==
    \A r \in Slots :
        (Answered(r) /\ req[r].endpoint = "/predict" /\ Registered(req[r].model_name)
            /\ req[r].text # <<>>)
        => PredictBodyOk(r)

\* C1 amended: /predict with a registered model name and a text that is
\* non-empty after trimming answers 200 with the text echoed untrimmed, the
\* model name, and the named classifier's label, a member of its label set,
\* whenever neither the vectorizer nor the named classifier raises.
C1_PredictOk ==
    \A r \in Slots :
        (Answered(r) /\ req[r].endpoint = "/predict" /\ Registered(req[r].model_name)
            /\ NonBlank(req[r].text) /\ TransformWorks /\ PredictWorks(req[r].model_name))
        => PredictBodyOk(r)

C1_Witness ==
    \E r \in Slots :
        /\ Answered(r) /\ req[r].endpoint = "/predict" /\ Status(r) = 200
        /\ req[r].model_name = "logistic_regression"
        /\ req[r].text # Strip(req[r].text)
        /\ Body(r).text = req[r].text

\* C2: /predict with an unregistered model name answers 400 for any text,
\* blank ones included, and the detail names the rejected model_name and lists
\* exactly the three valid names.
C2_UnknownModel400 ==
    \A r \in Slots :
        (Answered(r) /\ req[r].endpoint = "/predict" /\ ~Registered(req[r].model_name))
        => /\ Status(r) = 400
           /\ Body(r).detail.value = req[r].model_name
           /\ Body(r).detail.list = ModelOrder

C2_Witness ==
    \E r \in Slots :
        /\ Answered(r) /\ req[r].endpoint = "/predict" /\ Status(r) = 400
        /\ req[r].model_name = "random_forest"
        /\ req[r].text = <<" ">>

\* C3: a text that is empty after trimming gets 400 from /predict, whatever
\* the model name, and from /predict-all, and the body holds a detail only.
C3_BlankText400 ==
    \A r \in Slots :
        (Answered(r) /\ req[r].endpoint \in {"/predict", "/predict-all"}
            /\ ~NonBlank(req[r].text))
        => /\ Status(r) = 400
           /\ DOMAIN Body(r) = {"detail"}

C3_Witness ==
    \E r \in Slots :
        /\ Answered(r) /\ req[r].endpoint = "/predict-all" /\ Status(r) = 400
        /\ req[r].text = <<" ", " ">>

\* The results of a successful /predict-all: an entry for each of the three
\* registered names, each with exactly one of predicted_intent and error.
ResultsShapeOk(r) ==
    /\ Status(r) = 200
    /\ DOMAIN Body(r).results.at = ModelNames
    /\ \A m \in ModelNames :
          DOMAIN Body(r).results.at[m] \in {{"predicted_intent"}, {"error"}}

\* C4 as stated: /predict-all with a text that is non-empty after trimming
\* answers 200 with one entry per registered model.
C4_AsStated ==
    \A r \in Slots :
        (Answered(r) /\ req[r].endpoint = "/predict-all" /\ NonBlank(req[r].text))
        => ResultsShapeOk(r)

\* C4 amended: /predict-all with a text that is non-empty after trimming, and
\* whose vectorization does not raise, answers 200 with results keyed by
\* exactly the three registered names, each entry holding exactly one of
\* predicted_intent and error.
C4_ResultsShape ==
    \A r \in Slots :
        (Answered(r) /\ req[r].endpoint = "/predict-all" /\ NonBlank(req[r].text)
            /\ TransformWorks)
        => ResultsShapeOk(r)

C4_Witness ==
    \E r \in Slots :
        /\ Answered(r) /\ req[r].endpoint = "/predict-all" /\ Status(r) = 200
        /\ \E m \in ModelNames : DOMAIN Body(r).results.at[m] = {"error"}
        /\ \E m \in ModelNames : DOMAIN Body(r).results.at[m] = {"predicted_intent"}

\* C5: in /predict-all, once the text is vectorized, the classifiers that
\* raise get an error entry, every other classifier is still invoked and gets
\* its own prediction, and the answer is 200, whichever classifiers raise.
C5_FailureIsolated ==
    \A r \in Slots :
        (Answered(r) /\ req[r].endpoint = "/predict-all" /\ NonBlank(req[r].text)
            /\ TransformWorks)
        => /\ Status(r) = 200
           /\ \A m \in ModelNames :
                 Body(r).results.at[m] =
                    IF PredictWorks(m)
                    THEN [predicted_intent |-> OwnLabel(m, req[r].text)]
                    ELSE [error |-> PredictError]
           /\ \A m \in ModelNames :
                 \E i \in 1..Len(req[r].calls) : req[r].calls[i] = ModelFile[m]

C5_Witness ==
    \E r \in Slots :
        /\ Answered(r) /\ req[r].endpoint = "/predict-all" /\ Status(r) = 200
        /\ ~PredictWorks("naive_bayes") /\ ~PredictWorks("logistic_regression")
        /\ Body(r).results.at["linear_svm"] = [predicted_intent |-> "book_flight"]

\* C6: with valid input, a failure of the vectorizer or of the named classifier
\* makes /predict answer 500 with the error text in the detail, and a failure
\* of the vectorizer makes /predict-all answer 500; a request that fails
\* validation is answered 400, not 500.
C6_FailureIs500 ==
    \A r \in Slots :
        Answered(r) =>
            /\ (req[r].endpoint = "/predict" /\ Registered(req[r].model_name)
                    /\ NonBlank(req[r].text)
                    /\ (~TransformWorks \/ ~PredictWorks(req[r].model_name)))
               => /\ Status(r) = 500
                  /\ Body(r).detail.value =
                        IF TransformWorks THEN PredictError ELSE TransformError
            /\ (req[r].endpoint = "/predict-all" /\ NonBlank(req[r].text)
                    /\ ~TransformWorks)
               => /\ Status(r) = 500
                  /\ Body(r).detail.value = TransformError
            /\ (req[r].endpoint = "/predict"
                    /\ (~Registered(req[r].model_name) \/ ~NonBlank(req[r].text)))
               => Status(r) = 400
            /\ (req[r].endpoint = "/predict-all" /\ ~NonBlank(req[r].text))
               => Status(r) = 400

C6_Witness ==
    \E r \in Slots :
        /\ Answered(r) /\ req[r].endpoint = "/predict" /\ Status(r) = 500
        /\ TransformWorks
        /\ Body(r).detail.value = PredictError

\* C7: a request answered 400 has called neither the vectorizer nor any
\* classifier, and a /predict answered 200 has called the vectorizer and then
\* the named classifier, and nothing else.
C7_ValidationFirst ==
    \A r \in Slots :
        Answered(r) =>
            /\ Status(r) = 400 => req[r].calls = <<>>
            /\ (req[r].endpoint = "/predict" /\ Status(r) = 200)
               => req[r].calls = <<VectorizerFile, ModelFile[req[r].model_name]>>

C7_Witness ==
    \E r \in Slots :
        /\ Answered(r) /\ req[r].endpoint = "/predict" /\ Status(r) = 200
        /\ req[r].calls = <<VectorizerFile, ModelFile["linear_svm"]>>

SomeLoadFails == \E f \in ArtifactFiles : ~disk[f].ok

\* C8: when an artifact fails to load, the process never serves: no request
\* is ever taken or answered and no registry is defined; and a request is only
\* ever handled against the full registry.
C8_NoServiceAfterLoadFailure ==
    /\ SomeLoadFails =>
          /\ startup # "serving"
          /\ MODELS = EmptyDict
          /\ \A r \in Slots : req[r] = Idle
    /\ (\E r \in Slots : req[r] # Idle) =>
          /\ MODELS.keys = ModelOrder
          /\ vectorizer # <<>>

C8_Witness ==
    /\ startup = "aborted"
    /\ ~disk[ModelFile["linear_svm"]].ok
    /\ logistic_regression_model # <<>>

\* C9: once serving, the registry holds exactly the three names, bound to the
\* objects loaded at startup, and so does the vectorizer, whatever requests
\* have been handled; /models answers those three names, each with a
\* non-empty description, and /health answers models_loaded = 3.
C9_RegistryFixed ==
    startup = "serving" =>
        /\ MODELS.keys = ModelOrder
        /\ DOMAIN MODELS.at = ModelNames
        /\ \A m \in ModelNames : MODELS.at[m] = disk[ModelFile[m]].obj
        /\ vectorizer = <<disk[VectorizerFile].obj>>
        /\ \A r \in Slots :
              /\ (Answered(r) /\ req[r].endpoint = "/models") =>
                    /\ Status(r) = 200
                    /\ Body(r).models = ModelOrder
                    /\ DOMAIN Body(r).description = ModelNames
                    /\ \A m \in ModelNames : Body(r).description[m] # ""
              /\ (Answered(r) /\ req[r].endpoint = "/health") =>
                    /\ Status(r) = 200
                    /\ Body(r).models_loaded = 3

C9_Witness ==
    \E r \in Slots :
        /\ Answered(r) /\ req[r].endpoint = "/health"
        /\ Body(r).models_loaded = 3
        /\ ~TransformWorks

\* What a handler does next with the request q when nothing else runs.
StepAlone(q) ==
    CASE q.endpoint = "/" ->
            Return(q, [message |-> "Intent Classification API is running"])
      [] q.endpoint = "/models" ->
            Return(q, [models |-> MODELS.keys, description |-> ModelDescriptions])
      [] q.endpoint = "/health" ->
            Return(q, [status |-> "healthy", models_loaded |-> Len(MODELS.keys)])
      [] q.endpoint = "/predict" /\ q.pc = "received" -> PredictValidated(q)
      [] q.endpoint = "/predict" /\ q.pc = "validated" -> Vectorized(q)
      [] q.endpoint = "/predict" /\ q.pc = "transformed" -> PredictPredicted(q)
      [] q.endpoint = "/predict-all" /\ q.pc = "received" -> PredictAllValidated(q)
      [] q.endpoint = "/predict-all" /\ q.pc = "validated" -> PredictAllVectorized(q)
      [] q.endpoint = "/predict-all" /\ q.pc = "loop" /\ q.todo # <<>> ->
            PredictAllIterated(q)
      [] OTHER -> PredictAllReturned(q)

RECURSIVE RunAlone(_)
RunAlone(q) == IF q.pc = "done" THEN q ELSE RunAlone(StepAlone(q))

\* The response to (endpoint, text, model_name) handled with no other request
\* in flight.
HandledAlone(endpoint, text, model_name) ==
    RunAlone([Idle EXCEPT !.pc = "received", !.endpoint = endpoint, !.text = text,
                          !.model_name = model_name]).response

\* C10: under any interleaving of the handlers' steps, each request gets the
\* response it would get if handled alone.
C10_Independent ==
    \A r \in Slots :
        Answered(r) =>
            req[r].response = HandledAlone(req[r].endpoint, req[r].text, req[r].model_name)

C10_Witness ==
    \E r, s \in Slots :
        /\ r # s
        /\ Answered(r) /\ req[r].endpoint = "/predict-all" /\ Status(r) = 200
        /\ req[s].endpoint = "/predict-all" /\ req[s].pc = "loop"
        /\ Len(req[s].todo) = 1
        /\ req[s].text # req[r].text

====
